---- MODULE Spec2Model ----
(***************************************************************************)
(* Checkout commit sequence of Rell's Kitchen (src/server.js).             *)
(*                                                                         *)
(* The stores are the PostgreSQL tables sub_products, coupons and orders.  *)
(* Every request handler is an async function whose awaits are single      *)
(* pool.query statements run in autocommit mode, so the handlers of        *)
(* concurrent requests interleave between statements.  One action below is *)
(* one such atomic piece: the code of a handler from one await to the      *)
(* next.                                                                   *)
(*                                                                         *)
(* Money is an integer number of 1/10000 dollar (Unit), so that the        *)
(* sub-cent values the code produces (a 10% discount on 6.99) exist and    *)
(* toFixed(2) / DECIMAL(10,2) really round.                                *)
(*                                                                         *)
(* Beside the commit routes the module has the quote routes with the rate  *)
(* cache, coupon validation, the subscription routes, createOrder of the   *)
(* checkout page, and the helper functions of TaxCalculator and            *)
(* USPSIntegration called on their own, each with a specification.         *)
(***************************************************************************)
EXTENDS Integers, FiniteSets, Sequences, TLC

(* ------------------------------ bounds --------------------------------- *)
\* number of commit requests that arrive during a run
MaxReq == 2
\* largest quantity a request asks for (0 is the missing-quantity body)
MaxQty == 2
\* inventory_count of the sub-product at start
InitStock == 2
\* usage_limit of the limited coupon
CouponLimit == 1
\* the clock runs from 0 to MaxNow
MaxNow == 1
\* Date.now() of the server process runs from 0 to MaxClock
MaxClock == 3
\* setCachedRate sweeps the rate cache when it holds more entries than this
\* (100 in the source, scaled to the number of keys of the model)
SweepAbove == 1
\* the largest amount calculateTax is called on, in quarters of a dollar
MaxQuarters == 48

(* ------------------------- program constants --------------------------- *)
\* one cent, in units of 1/10000 dollar
Cent == 100
\* price of the 4oz sub-product, 6.99
Price4oz == 69900
\* discount_value of the seeded coupon 'family' (percentage)
FamilyPercent == 25
\* Arkansas tax rate 0.045, in 1/1000
ARTaxPerMille == 45
\* subscriber discount 0.10, in percent
SubscriberPercent == 10
\* fallback Ground Advantage rate 9.95 sent by the client as shippingCost
GroundCost == 99500
\* USPSIntegration.cacheTTL, 10 minutes, in clock units of 5 minutes
cacheTTL == 2

NoCode == "<none>"

SubProductIds == {"sp4oz"}
\* subProductId values a request body may carry
BodySubIds == SubProductIds \cup {"nosuch"}
\* the codes stored in the coupons table (codes are stored lower case)
StoredCodes == {"family", "limited"}
\* couponCode values a request body may carry
BodyCodes == {NoCode, "family", "FAMILY", "limited", "bogus"}
PayIds == {"PAY-A", "PAY-B"}
ReqIds == 1..MaxReq

Abs(x) == IF x < 0 THEN -x ELSE x

\* Number.prototype.toFixed(2), and the rounding of a DECIMAL(10,2) column:
\* to the nearest cent, halves away from zero
Round2(x) ==
  IF x >= 0 THEN ((x + (Cent \div 2)) \div Cent) * Cent
            ELSE -((((-x) + (Cent \div 2)) \div Cent) * Cent)

\* String.prototype.toLowerCase on the codes of the model
ToLowerCase(code) == IF code = "FAMILY" THEN "family" ELSE code

Min(a, b) == IF a < b THEN a ELSE b

(* ------------------------------- state --------------------------------- *)
VARIABLES
  inventory_count,   \* sub_products.inventory_count, per sub-product id
  coupons,           \* the coupons table, per stored code
  orders,            \* the rows of the orders table
  paypal_captured,   \* PayPal order ids PayPal has captured
  now,               \* the database clock NOW()
  req,               \* the commit requests: body, position in the handler, response
  vc_response,       \* the last response of /api/validate-coupon
  rateCache,         \* USPSIntegration.rateCache: cache key -> {rates, timestamp}
  clock,             \* Date.now() of the server process
  carrierUp,         \* the services the carrier answers a rate request for
  lookup,            \* the last call of calculateShippingRates and what it returned
  quote_response,    \* the last response of a shipping or order-total quote
  subscriptions,     \* the rows of the subscriptions table
  sub_req,           \* the /api/subscribe requests: body, position, response
  cancel_response,   \* the last response of /api/cancel-subscription
  calc,              \* the last call of a helper function and what it returned
  paypal_order       \* the last run of createOrder in the browser of a customer

vars == <<inventory_count, coupons, orders, paypal_captured, now, req, vc_response,
          rateCache, clock, carrierUp, lookup, quote_response,
          subscriptions, sub_req, cancel_response, calc, paypal_order>>

\* the state of the commit handlers and the tables
commitVars == <<inventory_count, coupons, orders, paypal_captured, now, req>>

\* the state of the rate cache and of the quote routes
quoteVars == <<rateCache, clock, carrierUp, lookup, quote_response>>

\* the subscriptions, and the helper functions called on their own
sideVars == <<subscriptions, sub_req, cancel_response, calc>>

\* the checkout page of a customer
clientVars == <<paypal_order>>

\* sub_products.price (initializeDatabase)
price(sub) == Price4oz

\* the amount PayPal captured for a PayPal order: PAY-A paid 16.94 (one 4oz
\* jar and Ground Advantage), PAY-B paid one dollar.  No handler reads it.
PayPalCaptured(id) == IF id = "PAY-A" THEN Price4oz + GroundCost ELSE 100 * Cent

\* the shipping selections of a request body: shippingCost and the state of
\* the shippingAddress
Pickup == [cost |-> 0, state |-> "AR"]
Ground == [cost |-> GroundCost, state |-> "AR"]
ShippingChoices == {Pickup, Ground}

\* the payloads of the tokens of the model, as /api/login and /api/guest-login sign
\* them: two members and a guest; NoToken is a request without a valid
\* token, whose req.user optionalAuth leaves undefined
Member(u) == [userId |-> u, role |-> "member"]
Tokens == {Member("u1"), Member("u2"), [userId |-> "g1", role |-> "guest"]}
NoToken == [userId |-> "null", role |-> "none"]

\* the rows of a user whose status is 'active'
ActiveSubscriptions(userId) ==
  {row \in subscriptions : row.user_id = userId /\ row.status = "active"}

\* a request that has not arrived.  seenInventory is the inventory_count the
\* handler's SELECT returned; couponValid and wrote are history: whether the
\* coupon of the body was a valid one when the handler ran its SELECT, and
\* which tables the handler has written; user is the payload of the token
\* the request came with, and activeSubscription whether that user had an
\* active subscription when the request arrived.
Idle ==
  [ pc |-> "idle", route |-> "none", subProductId |-> "nosuch", quantity |-> 0,
    shippingCost |-> 0, shippingState |-> "AR", couponCode |-> NoCode,
    couponDiscount |-> 0, subscriberDiscount |-> 0, paypalOrderId |-> "PAY-A",
    seenInventory |-> 0, totalAmount |-> 0, couponValid |-> TRUE,
    resp |-> "none", wrote |-> {}, user |-> NoToken, activeSubscription |-> FALSE ]

\* PaymentHandler.calculateCouponDiscount: the client's couponDiscount for a
\* coupon it validated, computed on the subtotal alone and not rounded
ClientCouponDiscount(code, subtotal) ==
  IF ToLowerCase(code) = "family" THEN (subtotal * FamilyPercent) \div 100
  ELSE IF ToLowerCase(code) = "limited" THEN Min(500 * Cent, subtotal)
  ELSE 0

\* the client's subscriberDiscount: 10% of the subtotal, not rounded
ClientSubscriberDiscount(isSubscriber, subtotal) ==
  IF isSubscriber THEN (subtotal * SubscriberPercent) \div 100 ELSE 0

\* TaxCalculator.calculateTax: only Arkansas is a nexus state
\* the state of an address that has none, and what getStateFromZip returns
\* for a ZIP code it does not know
NoState == "null"

\* String.prototype.toUpperCase on the states of the model
ToUpperCase(state) == IF state = "ar" THEN "AR" ELSE state

\* TaxCalculator.taxRates in thousandths, on the states of the model; "PR"
\* is a state the table does not have
taxRates(state) ==
  CASE state = "AR" -> ARTaxPerMille
    [] state = "LA" -> 45
    [] state = "MS" -> 70
    [] state = "NY" -> 80
    [] state = "TN" -> 70
    [] OTHER -> 0

\* TaxCalculator.nexusStates; addNexusState is called nowhere
nexusStates == {"AR"}

\* The whole-dollar amounts below 100.00 whose product with 0.045 is, as a
\* double, at or above the half cent it is in decimal: 3 * 0.045 is the double
\* 0.135000000000000008..., 11 * 0.045 is 0.494999999999999995...
HalfCentRoundsUp == {3, 7, 17, 25, 31, 37, 49, 55, 61, 75, 81, 87, 97, 99}

\* the product cut off after the second decimal, which toFixed(2) does not do
ProductToFixed2_CutsOff(amount, perMille) ==
  ((amount * perMille) \div (1000 * Cent)) * Cent

\* parseFloat((amount * taxRate).toFixed(2)) for an amount under 100.00 and the
\* rate of Arkansas: the nearest cent of the double product, which is the
\* nearest cent of the decimal product unless that is exactly a half cent
ProductToFixed2(amount, perMille) ==
  LET product == amount * perMille
      unit == 1000 * Cent
      below == (product \div unit) * Cent
      rest == product % unit
  IN  IF 2 * rest < unit THEN below
      ELSE IF 2 * rest > unit THEN below + Cent
      ELSE IF (amount \div (100 * Cent)) \in HalfCentRoundsUp THEN below + Cent
      ELSE below

\* TaxCalculator.calculateTax: the object it returns; state is the state of
\* shippingAddress, NoState when there is no address or the address has none
calculateTaxResult(amount, state) ==
  IF state = NoState
    THEN [taxAmount |-> 0, taxRate |-> 0, taxableAmount |-> amount,
          reason |-> "No shipping state provided"]
  ELSE IF ToUpperCase(state) \notin nexusStates
    THEN [taxAmount |-> 0, taxRate |-> 0, taxableAmount |-> amount,
          reason |-> "No nexus in"]
  ELSE IF taxRates(ToUpperCase(state)) = 0
    THEN [taxAmount |-> 0, taxRate |-> 0, taxableAmount |-> amount,
          reason |-> "No tax rate configured"]
  ELSE [taxAmount |-> ProductToFixed2(amount, taxRates(ToUpperCase(state))),
        taxRate |-> taxRates(ToUpperCase(state)), taxableAmount |-> amount,
        reason |-> "sales tax"]

\* the taxAmount of calculateTax
calculateTax(amount, state) == calculateTaxResult(amount, state).taxAmount

\* a request body of /api/process-payment
ProcessBody(s, q, sh, c, p, a) ==
  [subProductId |-> s, quantity |-> q, ship |-> sh, couponCode |-> c,
   paypalOrderId |-> p, addressComplete |-> a, user |-> NoToken]

\* a request body of /api/capture-paypal-payment (orderId, payerId, orderData)
CaptureBody(s, q, sh, c, p, sub, d) ==
  [subProductId |-> s, quantity |-> q, ship |-> sh, couponCode |-> c,
   paypalOrderId |-> p, isSubscriber |-> sub, hasOrderData |-> d,
   user |-> NoToken]

\* a request with the token of a user in its Authorization header; the
\* requests above come without token
SentBy(b, user) == [b EXCEPT !.user = user]

\* The bodies the commit handlers are run on.  A body with a defect (no
\* quantity, an incomplete shippingAddress, an unknown subProductId, no
\* orderData) has that one defect and is otherwise the plainest body, since
\* the handler answers it before it reads anything else.
ProcessBodies ==
  { ProcessBody("sp4oz", q, Ground, cp[1], cp[2], TRUE) :
      q \in 1..MaxQty,
      cp \in {<<NoCode, "PAY-A">>, <<"family", "PAY-A">>, <<NoCode, "PAY-B">>} }
  \cup { ProcessBody("nosuch", 1, Pickup, NoCode, "PAY-A", TRUE),
         ProcessBody("sp4oz", 0, Pickup, NoCode, "PAY-A", TRUE),
         ProcessBody("sp4oz", 1, Pickup, NoCode, "PAY-A", FALSE) }

CaptureBodies ==
  { CaptureBody("sp4oz", q, Ground, NoCode, "PAY-A", sub, TRUE) :
      q \in 1..MaxQty, sub \in BOOLEAN }
  \cup { CaptureBody("nosuch", 1, Pickup, NoCode, "PAY-A", FALSE, TRUE),
         CaptureBody("sp4oz", 1, Pickup, NoCode, "PAY-A", FALSE, FALSE) }

\* The bodies of the commits that run beside coupon validation and coupon
\* administration: one jar, picked up, with every spelling of a code.
CouponProcessBodies ==
  { ProcessBody("sp4oz", 1, Pickup, c, "PAY-A", TRUE) : c \in BodyCodes }

CouponCaptureBodies ==
  { CaptureBody("sp4oz", 1, Pickup, c, "PAY-A", FALSE, TRUE) : c \in BodyCodes }

(* --------------------- USPSIntegration: the rate cache ----------------- *)
\* the services calculateShippingRates asks the carrier for, in its order
Services == <<"GROUND_ADVANTAGE", "PRIORITY_MAIL", "PRIORITY_MAIL_EXPRESS">>

ServiceSet == {Services[i] : i \in 1..Len(Services)}

\* The carrier answers every service, Ground Advantage alone, or none: a
\* request for any other service times out, is refused or is answered with
\* a response parseUSPSResponse rejects.
CarrierStates == {ServiceSet, {"GROUND_ADVANTAGE"}, {}}

\* the origin of every shipment, and the destinations of the quotes
fromZip == "72120"

\* the quantities the quotes are asked for
QuoteQuantities == {1, 2}

\* the weight of the jars without the box and the padding, which
\* calculatePackageWeight does not return
calculatePackageWeight_WithoutBox(productSize, quantity) ==
  LET unitWeight == IF productSize = "4oz" THEN 8
                    ELSE IF productSize = "8oz" THEN 14
                    ELSE IF productSize = "16oz" THEN 26
                    ELSE 10
  IN  unitWeight * quantity

\* USPSIntegration.calculatePackageWeight, in tenths of a pound
calculatePackageWeight(productSize, quantity) ==
  LET unitWeight == IF productSize = "4oz" THEN 8
                    ELSE IF productSize = "8oz" THEN 14
                    ELSE IF productSize = "16oz" THEN 26
                    ELSE 10
  IN  unitWeight * quantity + 5

\* USPSIntegration.getPackageDimensions
getPackageDimensions(productSize, quantity) ==
  IF quantity = 1 THEN [width |-> 6, length |-> 9, height |-> 4]
  ELSE IF quantity = 2 THEN [width |-> 8, length |-> 10, height |-> 5]
  ELSE [width |-> 10, length |-> 12, height |-> 6]

\* USPSIntegration.generateCacheKey
generateCacheKey(from, to, weight, dimensions) ==
  <<from, to, weight, <<dimensions.width, dimensions.length, dimensions.height>>>>

\* the cache key of a quote for a number of 4oz jars sent to a ZIP code
KeyOf(zipCode, quantity) ==
  generateCacheKey(fromZip, zipCode, calculatePackageWeight("4oz", quantity),
                   getPackageDimensions("4oz", quantity))

\* What the carrier charges (postage.Rate).  Its price list is not part of
\* the program; it does not change during a run.
CarrierCost(service, weight) ==
  IF service = "GROUND_ADVANTAGE" THEN GroundCost
  ELSE IF service = "PRIORITY_MAIL" THEN GroundCost + 5 * weight * Cent
  ELSE 3 * GroundCost

\* the rate calculateShippingRates puts in front of the carrier's
PickupRate == [service |-> "PICKUP", cost |-> 0]

\* The loop of calculateShippingRates over the services: the rate of a
\* service is pushed when getRateForService resolves; when it rejects, the
\* inner catch logs a warning and the loop goes on.  up holds the services
\* the carrier answers.
CarrierRates(up, weight) ==
  LET all == [i \in 1..Len(Services) |->
                [service |-> Services[i], cost |-> CarrierCost(Services[i], weight)]]
  IN  SelectSeq(all, LAMBDA r : r.service \in up)

\* the list calculateShippingRates builds when it does not use the cache
UncachedRates(up, weight) == <<PickupRate>> \o CarrierRates(up, weight)

\* getCachedRate with the comparison off by one: an entry as old as the TTL
\* is still used
getCachedRate_AtTTL(cache, cacheKey) ==
  IF cacheKey \in DOMAIN cache /\ (clock - cache[cacheKey].timestamp) <= cacheTTL
    THEN {cache[cacheKey].rates}
    ELSE {}

\* USPSIntegration.getCachedRate: the rates of the entry, or nothing (null)
getCachedRate(cache, cacheKey) ==
  IF cacheKey \in DOMAIN cache /\ (clock - cache[cacheKey].timestamp) < cacheTTL
    THEN {cache[cacheKey].rates}
    ELSE {}

\* the sweep leaving the entries that are exactly cacheTTL old, which
\* cleanExpiredCache does not do
cleanExpiredCache_KeepsAtTTL(cache) ==
  LET kept == { k \in DOMAIN cache : ~((clock - cache[k].timestamp) > cacheTTL) }
  IN  [k \in kept |-> cache[k]]

\* USPSIntegration.cleanExpiredCache
cleanExpiredCache(cache) ==
  LET kept == { k \in DOMAIN cache : ~((clock - cache[k].timestamp) >= cacheTTL) }
  IN  [k \in kept |-> cache[k]]

\* USPSIntegration.setCachedRate
setCachedRate(cache, cacheKey, rates) ==
  LET set == [k \in DOMAIN cache \cup {cacheKey} |->
                IF k = cacheKey THEN [rates |-> rates, timestamp |-> clock]
                                ELSE cache[k]]
  IN  IF Cardinality(DOMAIN set) > SweepAbove THEN cleanExpiredCache(set) ELSE set

\* USPSIntegration.calculateShippingRates: what it returns and the cache it
\* leaves.  Every await of its try block is inside the inner try of the
\* loop, so no carrier failure reaches the outer catch: it never throws.
calculateShippingRates(from, to, weight, dimensions) ==
  LET cacheKey == generateCacheKey(from, to, weight, dimensions)
      cachedRates == getCachedRate(rateCache, cacheKey)
      rates == UncachedRates(carrierUp, weight)
  IN  IF cachedRates # {}
        THEN [threw |-> FALSE, hit |-> TRUE,
              rates |-> CHOOSE c \in cachedRates : TRUE, cache |-> rateCache]
        ELSE [threw |-> FALSE, hit |-> FALSE,
              rates |-> rates, cache |-> setCachedRate(rateCache, cacheKey, rates)]

\* the record of a call of calculateShippingRates: its key, the time, the
\* entry of the key before the call, the services the carrier answered for
\* at that time, and what the call returned and left in the cache; of the
\* entries under the other keys, the ages of those the call removed and of
\* those it left
LookupOf(cacheKey, result) ==
  [ called |-> TRUE, key |-> cacheKey, at |-> clock, up |-> carrierUp,
    before |-> IF cacheKey \in DOMAIN rateCache THEN {rateCache[cacheKey]} ELSE {},
    after |-> IF cacheKey \in DOMAIN result.cache THEN {result.cache[cacheKey]} ELSE {},
    hit |-> result.hit, rates |-> result.rates,
    size |-> Cardinality(DOMAIN rateCache \cup {cacheKey}),
    removed |-> { clock - rateCache[k].timestamp :
                  k \in (DOMAIN rateCache \ DOMAIN result.cache) \ {cacheKey} },
    kept |-> { clock - rateCache[k].timestamp :
               k \in { j \in (DOMAIN rateCache \cap DOMAIN result.cache) \ {cacheKey} :
                          result.cache[j] = rateCache[j] } } ]

NoLookup ==
  [ called |-> FALSE, key |-> KeyOf(fromZip, 1), at |-> 0, up |-> ServiceSet,
    before |-> {}, after |-> {}, hit |-> FALSE, rates |-> <<>>,
    size |-> 0, removed |-> {}, kept |-> {} ]

\* no quote has been answered
NoQuote ==
  [ route |-> "none", status |-> "none", body |-> <<>>, rates |-> <<>>,
    options |-> <<>>, subtotal |-> 0, fallback |-> FALSE, failed |-> {},
    previous |-> {} ]

\* the server process has started: the cache is empty
InitQuoteVars ==
  /\ rateCache = [k \in {} |-> PickupRate]
  /\ clock = 0
  /\ carrierUp = ServiceSet
  /\ lookup = NoLookup
  /\ quote_response = NoQuote

\* no helper function has been called on its own
NoCalc == [fn |-> "none"]

\* the PayPal subscription ids of the bodies; NoSubscriptionID is a body
\* without one
NoSubscriptionID == ""
SubscriptionIDs == {"I-A", "I-B", NoSubscriptionID}

\* the /api/subscribe requests of the model
SubReqIds == {1, 2}

\* no /api/subscribe request has arrived
NoSubscribe ==
  [pc |-> "idle", user |-> NoToken, subscriptionID |-> NoSubscriptionID,
   resp |-> "none"]

\* createOrder has not run
NoPayPalOrder ==
  [status |-> "none", taxLookup |-> "none", taxAmount |-> 0, total |-> 0]

InitSideVars ==
  /\ subscriptions = {}
  /\ sub_req = [r \in SubReqIds |-> NoSubscribe]
  /\ cancel_response = "none"
  /\ calc = NoCalc
  /\ paypal_order = NoPayPalOrder

\* The tables after initializeTables and initializeDatabase, and one coupon
\* row beside the seeded 'family': 'limited', a fixed 5.00 off with a
\* usage_limit and an expires_at, the kind of row the usage_limit and
\* expires_at columns and the WHERE clause of /api/validate-coupon are for.
\* No route inserts coupons; rows are put in the table by hand.
SeededCoupons ==
  [c \in StoredCodes |->
     IF c = "family"
       THEN [discount_type |-> "percentage", discount_value |-> FamilyPercent,
             active |-> TRUE, usage_limit |-> -1, usage_count |-> 0,
             expires_at |-> {}]
       ELSE [discount_type |-> "fixed", discount_value |-> 500 * Cent,
             active |-> TRUE, usage_limit |-> CouponLimit, usage_count |-> 0,
             expires_at |-> {MaxNow}]]

\* no coupon has been validated
NoValidation ==
  [status |-> "none", code |-> NoCode, discountAmount |-> 0,
   asked |-> NoCode, subtotal |-> 0, rows |-> {}, at |-> 0, base |-> 0]

\* everything but the coupons table
InitOther ==
  /\ inventory_count = [s \in SubProductIds |-> InitStock]
  /\ orders = {}
  /\ paypal_captured = {}
  /\ now = 0
  /\ req = [r \in ReqIds |-> Idle]
  /\ vc_response = NoValidation
  /\ InitQuoteVars
  /\ InitSideVars

Init ==
  /\ coupons = SeededCoupons
  /\ InitOther

(* ----------------------------- helpers --------------------------------- *)
\* the handler of request r ends with this response
Respond(r, status) == [req[r] EXCEPT !.pc = "done", !.resp = status]

\* requests are numbered in the order they arrive
MayArrive(r) ==
  /\ req[r].pc = "idle"
  /\ \A q \in ReqIds : q < r => req[q].pc # "idle"

\* the stock check with its comparison lost: only an empty stock is refused
InsufficientInventory_OnlyEmpty(inventory, quantity) ==
  inventory = 0

\* the stock check of /api/process-payment:
\* !subProduct.inventory_count || subProduct.inventory_count < quantity
InsufficientInventory(inventory, quantity) ==
  inventory = 0 \/ inventory < quantity

\* totalAmount of /api/process-payment: (subtotal + (shippingCost || 0)).toFixed(2)
ProcessTotalAmount(unitPrice, quantity, shippingCost) ==
  Round2(unitPrice * quantity + shippingCost)

\* totalAmount of /api/capture-paypal-payment: not rounded by the handler
CaptureTotalAmount(unitPrice, quantity, shippingCost, couponDiscount, subscriberDiscount) ==
  unitPrice * quantity + shippingCost - couponDiscount - subscriberDiscount

\* the row the INSERT INTO orders of request r stores; the DECIMAL(10,2)
\* columns round what they are given
OrderRow(r) ==
  [ id |-> r,
    sub_product_id |-> req[r].subProductId,
    quantity |-> req[r].quantity,
    shipping_cost |-> Round2(req[r].shippingCost),
    shipping_state |-> req[r].shippingState,
    coupon_code |-> req[r].couponCode,
    coupon_discount |-> Round2(req[r].couponDiscount),
    total_amount |-> Round2(req[r].totalAmount),
    paypal_order_id |-> req[r].paypalOrderId,
    user_id |-> IF req[r].route = "process" THEN req[r].user.userId ELSE "null" ]

\* the WHERE clause without its condition on usage_limit
CouponRowValid_IgnoresUsage(c) ==
  /\ c.active
  /\ \A t \in c.expires_at : t > now

\* the WHERE clause of /api/validate-coupon on the row of a stored code
CouponRowValid(c) ==
  /\ c.active
  /\ \A t \in c.expires_at : t > now
  /\ (c.usage_limit = -1 \/ c.usage_count < c.usage_limit)

\* a code names a coupon /api/validate-coupon would accept now
CouponValidNow(code) ==
  /\ ToLowerCase(code) \in StoredCodes
  /\ CouponRowValid(coupons[ToLowerCase(code)])

\* discountAmount of /api/validate-coupon before rounding
CouponDiscountAmount(c, baseAmount) ==
  IF c.discount_type = "percentage" THEN (baseAmount * c.discount_value) \div 100
  ELSE IF c.discount_type = "fixed" THEN Min(c.discount_value, baseAmount)
  ELSE 0

(* ----------------------- POST /api/process-payment --------------------- *)
\* From the arrival of the request to the first statement after the SELECT:
\* field validation, the sub-product lookup (dbOk: the query does not
\* throw), the stock check and the total.
ProcessPaymentStart(r, b, dbOk) ==
  /\ MayArrive(r)
  /\ LET arrived == [req[r] EXCEPT
                       !.route = "process", !.user = b.user,
                       !.activeSubscription = (ActiveSubscriptions(b.user.userId) # {})]
         subtotal == price(b.subProductId) * b.quantity
         body == [arrived EXCEPT
                    !.subProductId = b.subProductId,
                    !.quantity = b.quantity,
                    !.shippingCost = b.ship.cost,
                    !.shippingState = b.ship.state,
                    !.couponCode = b.couponCode,
                    !.couponDiscount = ClientCouponDiscount(b.couponCode, subtotal),
                    !.couponValid = (b.couponCode = NoCode \/ CouponValidNow(b.couponCode)),
                    !.paypalOrderId = b.paypalOrderId]
     IN  req' = [req EXCEPT ![r] =
           IF b.quantity = 0
             THEN [arrived EXCEPT !.pc = "done", !.resp = "missing_fields"]
           ELSE IF ~b.addressComplete
             THEN [arrived EXCEPT !.pc = "done", !.resp = "address_required"]
           ELSE IF ~dbOk
             THEN [arrived EXCEPT !.pc = "done", !.resp = "processing_failed"]
           ELSE IF b.subProductId \notin SubProductIds
             THEN [arrived EXCEPT !.pc = "done", !.resp = "not_found"]
           ELSE IF InsufficientInventory(inventory_count[b.subProductId], b.quantity)
             THEN [body EXCEPT !.pc = "done", !.resp = "insufficient_inventory",
                               !.seenInventory = inventory_count[b.subProductId]]
           ELSE [body EXCEPT !.pc = "insert",
                             !.seenInventory = inventory_count[b.subProductId],
                             !.totalAmount =
                               ProcessTotalAmount(price(b.subProductId), b.quantity,
                                                  b.ship.cost)]]
  /\ UNCHANGED <<inventory_count, coupons, orders, paypal_captured, now, vc_response>>
  /\ UNCHANGED quoteVars
  /\ UNCHANGED sideVars
  /\ UNCHANGED clientVars

\* INSERT INTO orders
ProcessInsertOrder(r) ==
  /\ req[r].route = "process"
  /\ req[r].pc = "insert"
  /\ orders' = orders \cup {OrderRow(r)}
  /\ req' = [req EXCEPT ![r].pc = "decrement", ![r].wrote = @ \cup {"order"}]
  /\ UNCHANGED <<inventory_count, coupons, paypal_captured, now, vc_response>>
  /\ UNCHANGED quoteVars
  /\ UNCHANGED sideVars
  /\ UNCHANGED clientVars

\* UPDATE sub_products SET inventory_count = inventory_count - $1
ProcessUpdateInventory(r) ==
  /\ req[r].route = "process"
  /\ req[r].pc = "decrement"
  /\ inventory_count' =
       [inventory_count EXCEPT ![req[r].subProductId] = @ - req[r].quantity]
  /\ req' = [req EXCEPT ![r] =
       IF req[r].couponCode # NoCode
         THEN [req[r] EXCEPT !.pc = "coupon", !.wrote = @ \cup {"inventory"}]
         ELSE [req[r] EXCEPT !.pc = "done", !.resp = "ok",
                             !.wrote = @ \cup {"inventory"}]]
  /\ UNCHANGED <<coupons, orders, paypal_captured, now, vc_response>>
  /\ UNCHANGED quoteVars
  /\ UNCHANGED sideVars
  /\ UNCHANGED clientVars

\* UPDATE coupons SET usage_count = usage_count + 1 WHERE code = $1, with the
\* code as the request spelled it
ProcessUpdateCoupon(r) ==
  /\ req[r].route = "process"
  /\ req[r].pc = "coupon"
  /\ coupons' =
       [c \in StoredCodes |->
          IF c = req[r].couponCode
            THEN [coupons[c] EXCEPT !.usage_count = @ + 1]
            ELSE coupons[c]]
  /\ req' = [req EXCEPT ![r] =
       [req[r] EXCEPT !.pc = "done", !.resp = "ok",
                      !.wrote = IF req[r].couponCode \in StoredCodes
                                  THEN @ \cup {"coupon"} ELSE @]]
  /\ UNCHANGED <<inventory_count, orders, paypal_captured, now, vc_response>>
  /\ UNCHANGED quoteVars
  /\ UNCHANGED sideVars
  /\ UNCHANGED clientVars

(* ------------------- POST /api/capture-paypal-payment ------------------ *)
\* From the arrival of the request to the first statement after the SELECT:
\* validation, the PayPal capture (paypalOk: PayPal answers; PayPal refuses
\* to capture an order twice), the sub-product lookup and the total.  The
\* handler makes no stock check.
CapturePaypalStart(r, b, paypalOk, dbOk) ==
  /\ MayArrive(r)
  /\ LET arrived == [req[r] EXCEPT
                       !.route = "capture", !.user = b.user,
                       !.activeSubscription = (ActiveSubscriptions(b.user.userId) # {})]
         captured == paypalOk /\ b.paypalOrderId \notin paypal_captured
         subtotal == price(b.subProductId) * b.quantity
         couponDiscount == ClientCouponDiscount(b.couponCode, subtotal)
         subscriberDiscount == ClientSubscriberDiscount(b.isSubscriber, subtotal)
         body == [arrived EXCEPT
                    !.subProductId = b.subProductId,
                    !.quantity = b.quantity,
                    !.shippingCost = b.ship.cost,
                    !.shippingState = b.ship.state,
                    !.couponCode = b.couponCode,
                    !.couponDiscount = couponDiscount,
                    !.subscriberDiscount = subscriberDiscount,
                    !.couponValid = (b.couponCode = NoCode \/ CouponValidNow(b.couponCode)),
                    !.paypalOrderId = b.paypalOrderId]
     IN  /\ paypal_captured' =
              IF b.hasOrderData /\ captured
                THEN paypal_captured \cup {b.paypalOrderId}
                ELSE paypal_captured
         /\ req' = [req EXCEPT ![r] =
              IF ~b.hasOrderData
                THEN [arrived EXCEPT !.pc = "done", !.resp = "missing_fields"]
              ELSE IF ~captured
                THEN [arrived EXCEPT !.pc = "done", !.resp = "capture_failed",
                                     !.paypalOrderId = b.paypalOrderId]
              ELSE IF ~dbOk \/ b.subProductId \notin SubProductIds
                THEN [arrived EXCEPT !.pc = "done", !.resp = "capture_failed",
                                     !.paypalOrderId = b.paypalOrderId]
              ELSE [body EXCEPT !.pc = "insert",
                                !.seenInventory = inventory_count[b.subProductId],
                                !.totalAmount =
                                  CaptureTotalAmount(price(b.subProductId), b.quantity,
                                                     b.ship.cost, couponDiscount,
                                                     subscriberDiscount)]]
  /\ UNCHANGED <<inventory_count, coupons, orders, now, vc_response>>
  /\ UNCHANGED quoteVars
  /\ UNCHANGED sideVars
  /\ UNCHANGED clientVars

\* INSERT INTO orders ... RETURNING id
CaptureInsertOrder(r) ==
  /\ req[r].route = "capture"
  /\ req[r].pc = "insert"
  /\ orders' = orders \cup {OrderRow(r)}
  /\ req' = [req EXCEPT ![r].pc = "decrement", ![r].wrote = @ \cup {"order"}]
  /\ UNCHANGED <<inventory_count, coupons, paypal_captured, now, vc_response>>
  /\ UNCHANGED quoteVars
  /\ UNCHANGED sideVars
  /\ UNCHANGED clientVars

\* UPDATE sub_products SET inventory_count = inventory_count - $1, then the
\* response; the handler has no statement on coupons
CaptureUpdateInventory(r) ==
  /\ req[r].route = "capture"
  /\ req[r].pc = "decrement"
  /\ inventory_count' =
       [inventory_count EXCEPT ![req[r].subProductId] = @ - req[r].quantity]
  /\ req' = [req EXCEPT ![r] =
       [req[r] EXCEPT !.pc = "done", !.resp = "ok", !.wrote = @ \cup {"inventory"}]]
  /\ UNCHANGED <<coupons, orders, paypal_captured, now, vc_response>>
  /\ UNCHANGED quoteVars
  /\ UNCHANGED sideVars
  /\ UNCHANGED clientVars

\* The statement request r is about to run throws (the connection is lost,
\* the database refuses it): the catch block answers 500.  Nothing the
\* handler wrote before is undone, as no statement runs in a transaction.
QueryFails(r) ==
  /\ req[r].pc \in {"insert", "decrement", "coupon"}
  /\ req' = [req EXCEPT ![r] =
       Respond(r, IF req[r].route = "process" THEN "processing_failed"
                                              ELSE "capture_failed")]
  /\ UNCHANGED <<inventory_count, coupons, orders, paypal_captured, now, vc_response>>
  /\ UNCHANGED quoteVars
  /\ UNCHANGED sideVars
  /\ UNCHANGED clientVars

(* ----------------------- POST /api/validate-coupon --------------------- *)
\* a validation that counts a use of the coupon it accepts
ValidateCoupon_CountsUse(code, subtotal, shippingCost) ==
  /\ vc_response' = [NoValidation EXCEPT !.status = "valid", !.code = ToLowerCase(code)]
  /\ coupons' =
       [c \in StoredCodes |->
          IF c = ToLowerCase(code) THEN [coupons[c] EXCEPT !.usage_count = @ + 1]
                                   ELSE coupons[c]]
  /\ UNCHANGED <<inventory_count, orders, paypal_captured, now, req>>
  /\ UNCHANGED quoteVars
  /\ UNCHANGED sideVars
  /\ UNCHANGED clientVars

\* The response, and with it what the request asked and what the tables
\* held: the code and the subtotal as sent, the rows whose code is the sent
\* code but for the case of its letters, the time, and subtotal + shippingCost.
ValidateCoupon(code, subtotal, shippingCost) ==
  /\ vc_response' =
       LET asked == [asked |-> code, subtotal |-> subtotal,
                     rows |-> { coupons[c] : c \in { d \in StoredCodes :
                                  ToLowerCase(d) = ToLowerCase(code) } },
                     at |-> now,
                     base |-> subtotal + shippingCost]
       IN  IF code = NoCode \/ subtotal = 0
             THEN [status |-> "required", code |-> NoCode, discountAmount |-> 0] @@ asked
           ELSE IF CouponValidNow(code)
             THEN [status |-> "valid", code |-> ToLowerCase(code),
                   discountAmount |->
                     Round2(CouponDiscountAmount(coupons[ToLowerCase(code)],
                                                 subtotal + shippingCost))] @@ asked
           ELSE [status |-> "invalid", code |-> NoCode, discountAmount |-> 0] @@ asked
  /\ UNCHANGED <<inventory_count, coupons, orders, paypal_captured, now, req>>
  /\ UNCHANGED quoteVars
  /\ UNCHANGED sideVars
  /\ UNCHANGED clientVars

(* -------------------- POST /admin/coupon/:code/:action ----------------- *)
\* UPDATE coupons SET active = $1 WHERE code = $2, with the code as the URL
\* spelled it; a code that matches no row is answered 404
AdminCoupon(code, active) ==
  /\ coupons' =
       [c \in StoredCodes |->
          IF c = code THEN [coupons[c] EXCEPT !.active = active] ELSE coupons[c]]
  /\ UNCHANGED <<inventory_count, orders, paypal_captured, now, req, vc_response>>
  /\ UNCHANGED quoteVars
  /\ UNCHANGED sideVars
  /\ UNCHANGED clientVars

\* time passes
Tick ==
  /\ now < MaxNow
  /\ now' = now + 1
  /\ UNCHANGED <<inventory_count, coupons, orders, paypal_captured, req, vc_response>>
  /\ UNCHANGED quoteVars
  /\ UNCHANGED sideVars
  /\ UNCHANGED clientVars

\* the commit handlers, their statements interleaved, any statement failing
Next ==
  \/ \E r \in ReqIds, b \in ProcessBodies, dbOk \in BOOLEAN : ProcessPaymentStart(r, b, dbOk)
  \/ \E r \in ReqIds : ProcessInsertOrder(r)
  \/ \E r \in ReqIds : ProcessUpdateInventory(r)
  \/ \E r \in ReqIds : ProcessUpdateCoupon(r)
  \/ \E r \in ReqIds, b \in CaptureBodies, paypalOk \in BOOLEAN, dbOk \in BOOLEAN :
       CapturePaypalStart(r, b, paypalOk, dbOk)
  \/ \E r \in ReqIds : CaptureInsertOrder(r)
  \/ \E r \in ReqIds : CaptureUpdateInventory(r)
  \/ \E r \in ReqIds : QueryFails(r)

Spec == Init /\ [][Next]_vars

\* the commits with a coupon code beside coupon validation, coupon
\* administration and the passing of time
NextCoupon ==
  \/ \E r \in ReqIds, b \in CouponProcessBodies : ProcessPaymentStart(r, b, TRUE)
  \/ \E r \in ReqIds : ProcessInsertOrder(r)
  \/ \E r \in ReqIds : ProcessUpdateInventory(r)
  \/ \E r \in ReqIds : ProcessUpdateCoupon(r)
  \/ \E r \in ReqIds, b \in CouponCaptureBodies : CapturePaypalStart(r, b, TRUE, TRUE)
  \/ \E r \in ReqIds : CaptureInsertOrder(r)
  \/ \E r \in ReqIds : CaptureUpdateInventory(r)
  \/ \E code \in {"limited"} : ValidateCoupon(code, Price4oz, 0)
  \/ \E code \in BodyCodes \ {NoCode}, active \in BOOLEAN : AdminCoupon(code, active)
  \/ Tick

SpecCoupon == Init /\ [][NextCoupon]_vars

(* ------------------------------ the quotes ----------------------------- *)
\* USPSIntegration.isValidZipCode, /^\d{5}(-\d{4})?$/, on the ZIP codes of
\* the model: "7212" has four digits
isValidZipCode(zipCode) == zipCode \in {"72120", "10001"}

\* zipRanges of getStateFromZip, in the order Object.entries goes through them
zipRanges ==
  << <<"AL", 35000, 36999>>,
     <<"AZ", 85000, 86999>>,
     <<"CA", 90000, 96699>>,
     <<"CO", 80000, 81999>>,
     <<"CT", 6000, 6999>>,
     <<"FL", 32000, 34999>>,
     <<"GA", 30000, 31999>>,
     <<"IL", 60000, 62999>>,
     <<"IN", 46000, 47999>>,
     <<"KS", 66000, 67999>>,
     <<"LA", 70000, 71999>>,
     <<"MA", 1000, 2799>>,
     <<"MO", 63000, 65999>>,
     <<"MS", 38000, 39999>>,
     <<"NC", 27000, 28999>>,
     <<"NY", 10000, 14999>>,
     <<"OH", 43000, 45999>>,
     <<"OK", 73000, 74999>>,
     <<"SC", 29000, 29999>>,
     <<"TN", 37000, 38599>>,
     <<"TX", 75000, 79999>>,
     <<"VA", 20000, 24699>>,
     <<"WA", 98000, 99499>>,
     <<"WV", 24700, 26999>>,
     <<"WI", 53000, 54999>> >>

\* the ranges a ZIP number lies in, as indices of zipRanges
RangesOf(zipNum) ==
  { i \in 1..Len(zipRanges) : zipNum >= zipRanges[i][2] /\ zipNum <= zipRanges[i][3] }

\* zip.match(/^7[12]/), on the first two digits of the ZIP code
MatchesArkansas(firstTwo) == firstTwo \in {71, 72}

\* getStateFromZip on the first two digits of a ZIP code and its parseInt: the
\* Arkansas prefixes first, then the first range that holds the number
StateOfZip(firstTwo, zipNum) ==
  IF MatchesArkansas(firstTwo) THEN "AR"
  ELSE IF RangesOf(zipNum) = {} THEN NoState
  ELSE LET first == CHOOSE i \in RangesOf(zipNum) : \A j \in RangesOf(zipNum) : i <= j
       IN  zipRanges[first][1]

\* getStateFromZip with the Arkansas rule tried after the ranges: the order
\* the code does not use
StateOfZip_RangesFirst(firstTwo, zipNum) ==
  IF RangesOf(zipNum) # {}
    THEN LET last == CHOOSE i \in RangesOf(zipNum) : \A j \in RangesOf(zipNum) : i >= j
         IN  zipRanges[last][1]
  ELSE IF MatchesArkansas(firstTwo) THEN "AR"
  ELSE NoState

\* the rules of getStateFromZip that match a ZIP code, by their states
MatchingRules(firstTwo, zipNum) ==
  (IF MatchesArkansas(firstTwo) THEN {"AR"} ELSE {})
    \cup { zipRanges[i][1] : i \in RangesOf(zipNum) }

\* parseInt and the first two digits of the ZIP codes of the quote bodies
parseInt(zipCode) ==
  CASE zipCode = "72120" -> 72120
    [] zipCode = "10001" -> 10001
    [] zipCode = "7212" -> 7212

FirstTwoDigits(zipCode) ==
  CASE zipCode = "72120" -> 72
    [] zipCode = "10001" -> 10
    [] zipCode = "7212" -> 72

\* TaxCalculator.getStateFromZip on the ZIP codes of the quote bodies
getStateFromZip(zipCode) == StateOfZip(FirstTwoDigits(zipCode), parseInt(zipCode))

\* the option both quote routes put in front of the list
LocalPickup == [service |-> "LOCAL_PICKUP", cost |-> 0]

\* the rates the catch block of /api/calculate-shipping answers with
ShippingFallbackRates ==
  << LocalPickup,
     [service |-> "GROUND_ADVANTAGE", cost |-> GroundCost],
     [service |-> "PRIORITY_MAIL", cost |-> 1850 * Cent],
     [service |-> "PRIORITY_MAIL_EXPRESS", cost |-> 4995 * Cent] >>

\* the rates the inner catch block of /api/calculate-order-total uses
OrderTotalFallbackRates ==
  << LocalPickup,
     [service |-> "STANDARD", cost |-> 1250 * Cent],
     [service |-> "EXPEDITED", cost |-> 2500 * Cent] >>

\* a request body of /api/calculate-shipping
ShippingBody(z, q) == [zipCode |-> z, productSize |-> "4oz", quantity |-> q]

\* the address field of a body: none, or the state of the address object,
\* NoState for an address object without a state
NoAddress == {}
Address(state) == {state}

\* a request body of /api/calculate-order-total; a couponCode the client adds
\* is a field the handler does not read
OrderTotalBody(z, q, p, c, a) ==
  [zipCode |-> z, productSize |-> "4oz", quantity |-> q, productPrice |-> p,
   couponCode |-> c, address |-> a]

\* the bodies the quote routes are run on: the honest quote of two jars, a
\* quote with a coupon code, a quote with a price of one cent, and the
\* bodies the validation refuses
ShippingBodies ==
  { ShippingBody("72120", 2), ShippingBody("72120", 0), ShippingBody("7212", 2) }

OrderTotalBodies ==
  { OrderTotalBody("72120", 2, Price4oz, NoCode, NoAddress),
    OrderTotalBody("72120", 2, Price4oz, "family", NoAddress),
    OrderTotalBody("72120", 2, Cent, NoCode, NoAddress),
    OrderTotalBody("72120", 0, Price4oz, NoCode, NoAddress),
    OrderTotalBody("7212", 2, Price4oz, NoCode, NoAddress),
    OrderTotalBody("72120", 2, Price4oz, NoCode, Address(NoState)),
    OrderTotalBody("72120", 2, Price4oz, NoCode, Address("ar")) }

\* the response of a quote route
QuoteResponse(route, status, b, rates, options, subtotal, fallback, failed) ==
  [ route |-> route, status |-> status, body |-> b, rates |-> rates,
    options |-> options, subtotal |-> subtotal, fallback |-> fallback,
    failed |-> failed,
    previous |-> IF quote_response.route = route /\ quote_response.body = b
                      /\ quote_response.status = "ok"
                   THEN {quote_response.options} ELSE {} ]

\* the carrier requests a call of calculateShippingRates made in vain
FailedRequests(result) == IF result.hit THEN {} ELSE ServiceSet \ carrierUp

(* --------------------- POST /api/calculate-shipping -------------------- *)
CalculateShipping(b) ==
  LET weight == calculatePackageWeight(b.productSize, b.quantity)
      dimensions == getPackageDimensions(b.productSize, b.quantity)
      result == calculateShippingRates(fromZip, b.zipCode, weight, dimensions)
      cacheKey == generateCacheKey(fromZip, b.zipCode, weight, dimensions)
  IN  /\ IF b.quantity = 0
           THEN /\ quote_response' =
                     QuoteResponse("shipping", "required", b, <<>>, <<>>, 0, FALSE, {})
                /\ UNCHANGED <<rateCache, lookup>>
         ELSE IF ~isValidZipCode(b.zipCode)
           THEN /\ quote_response' =
                     QuoteResponse("shipping", "invalid_zip", b, <<>>, <<>>, 0, FALSE, {})
                /\ UNCHANGED <<rateCache, lookup>>
         ELSE /\ rateCache' = result.cache
              /\ lookup' = LookupOf(cacheKey, result)
              /\ quote_response' =
                   IF result.threw
                     THEN QuoteResponse("shipping", "ok", b, ShippingFallbackRates,
                                        <<>>, 0, TRUE, FailedRequests(result))
                     ELSE QuoteResponse("shipping", "ok", b,
                                        <<LocalPickup>> \o result.rates,
                                        <<>>, 0, FALSE, FailedRequests(result))
      /\ UNCHANGED <<clock, carrierUp>>
      /\ UNCHANGED <<inventory_count, coupons, orders, paypal_captured, now, req,
                     vc_response>>
      /\ UNCHANGED sideVars
      /\ UNCHANGED clientVars

(* -------------------- POST /api/calculate-order-total ------------------ *)
\* one element of orderOptions: the totals of a shipping rate
OrderOption(rate, subtotal, state) ==
  LET shippingCost == rate.cost
      taxableAmount == subtotal + shippingCost
      taxAmount == calculateTax(taxableAmount, state)
      total == subtotal + shippingCost + taxAmount
  IN  [ shippingService |-> rate.service, shippingCost |-> shippingCost,
        subtotal |-> subtotal, taxAmount |-> taxAmount, total |-> Round2(total) ]

OrderTotalHandler(b) ==
  LET subtotal == b.productPrice * b.quantity
      weight == calculatePackageWeight(b.productSize, b.quantity)
      dimensions == getPackageDimensions(b.productSize, b.quantity)
      result == calculateShippingRates(fromZip, b.zipCode, weight, dimensions)
      cacheKey == generateCacheKey(fromZip, b.zipCode, weight, dimensions)
      shippingRates == IF result.threw THEN OrderTotalFallbackRates
                       ELSE <<LocalPickup>> \o result.rates
      state == IF b.address = NoAddress THEN getStateFromZip(b.zipCode)
               ELSE CHOOSE st \in b.address : TRUE
      orderOptions == [i \in 1..Len(shippingRates) |->
                         OrderOption(shippingRates[i], subtotal, state)]
  IN  /\ IF b.quantity = 0 \/ b.productPrice = 0
           THEN /\ quote_response' =
                     QuoteResponse("order-total", "required", b, <<>>, <<>>, 0, FALSE, {})
                /\ UNCHANGED <<rateCache, lookup>>
         ELSE IF ~isValidZipCode(b.zipCode)
           THEN /\ quote_response' =
                     QuoteResponse("order-total", "invalid_zip", b, <<>>, <<>>, 0, FALSE, {})
                /\ UNCHANGED <<rateCache, lookup>>
         ELSE /\ rateCache' = result.cache
              /\ lookup' = LookupOf(cacheKey, result)
              /\ quote_response' =
                   QuoteResponse("order-total", "ok", b, shippingRates, orderOptions,
                                 subtotal, FALSE, FailedRequests(result))
      /\ UNCHANGED <<clock, carrierUp>>
      /\ UNCHANGED <<inventory_count, coupons, orders, paypal_captured, now, req,
                     vc_response>>
      /\ UNCHANGED sideVars

\* a quote asked for on its own
CalculateOrderTotal(b) == OrderTotalHandler(b) /\ UNCHANGED clientVars

\* the carrier starts or stops answering the requests for some services
CarrierChanges(up) ==
  /\ up # carrierUp
  /\ carrierUp' = up
  /\ UNCHANGED <<rateCache, clock, lookup, quote_response>>
  /\ UNCHANGED <<inventory_count, coupons, orders, paypal_captured, now, req,
                 vc_response>>
  /\ UNCHANGED sideVars
  /\ UNCHANGED clientVars

\* five minutes pass on the clock of the server process
ClockTick ==
  /\ clock < MaxClock
  /\ clock' = clock + 1
  /\ UNCHANGED <<rateCache, carrierUp, lookup, quote_response>>
  /\ UNCHANGED <<inventory_count, coupons, orders, paypal_captured, now, req,
                 vc_response>>
  /\ UNCHANGED sideVars
  /\ UNCHANGED clientVars

\* the quote routes, called in any order while the carrier comes and goes
NextQuote ==
  \/ \E b \in ShippingBodies : CalculateShipping(b)
  \/ \E b \in OrderTotalBodies : CalculateOrderTotal(b)
  \/ \E code \in {"FAMILY", "bogus"} : ValidateCoupon(code, Price4oz * 2, GroundCost)
  \/ \E up \in CarrierStates : CarrierChanges(up)
  \/ ClockTick

SpecQuote == Init /\ [][NextQuote]_vars

(* ------------------------ the rate cache on its own -------------------- *)
\* a call of calculateShippingRates for a number of 4oz jars sent to a ZIP
\* code
LookupRates(zipCode, quantity) ==
  LET weight == calculatePackageWeight("4oz", quantity)
      dimensions == getPackageDimensions("4oz", quantity)
      result == calculateShippingRates(fromZip, zipCode, weight, dimensions)
  IN  /\ rateCache' = result.cache
      /\ lookup' = LookupOf(generateCacheKey(fromZip, zipCode, weight, dimensions), result)
      /\ UNCHANGED <<clock, carrierUp, quote_response>>
      /\ UNCHANGED <<inventory_count, coupons, orders, paypal_captured, now, req,
                     vc_response>>
      /\ UNCHANGED sideVars
      /\ UNCHANGED clientVars

\* lookups for three keys while time passes and the carrier comes and goes
NextCache ==
  \/ \E q \in QuoteQuantities : LookupRates(fromZip, q)
  \/ LookupRates("10001", 1)
  \/ \E up \in CarrierStates : CarrierChanges(up)
  \/ ClockTick

SpecCache == Init /\ [][NextCache]_vars

(* ------------------- createOrder of the checkout page ------------------ *)
\* what becomes of the fetch of /api/calculate-order-total in createOrder:
\* the handler answers; an answer whose status is not 2xx (429 of the rate
\* limiter, 500 of the catch block); no answer, fetch rejects
TaxLookups == {"ok", "error", "unreachable"}

\* PaymentHandler.setupPayPalButtons createOrder, for a customer who is no
\* subscriber, has no coupon, has filled in the form with ZIP code fromZip and
\* has chosen the shipping rate sh.  The handler of the quote runs inside the
\* fetch when the request gets through.
CreateOrder(quantity, sh, taxLookup) ==
  LET subtotal == Round2(Price4oz * quantity)
      totalDiscountAmount == 0
      shippingCost == Round2(sh.cost)
      b == OrderTotalBody(fromZip, quantity, Price4oz, NoCode, NoAddress)
  IN  /\ IF taxLookup = "ok"
           THEN OrderTotalHandler(b)
           ELSE /\ UNCHANGED quoteVars
                /\ UNCHANGED <<inventory_count, coupons, orders, paypal_captured, now,
                               req, vc_response>>
                /\ UNCHANGED sideVars
      /\ LET taxAmount == IF taxLookup = "ok" /\ quote_response'.status = "ok"
                            THEN quote_response'.options[1].taxAmount
                            ELSE 0
             total == Round2(subtotal + shippingCost + taxAmount - totalDiscountAmount)
             calculatedTotal == subtotal + shippingCost - totalDiscountAmount
         IN  paypal_order' =
               IF total <= 0
                 THEN [status |-> "invalid_total", taxLookup |-> taxLookup,
                       taxAmount |-> taxAmount, total |-> total]
               ELSE IF Abs(calculatedTotal - total) >= Cent
                 THEN [status |-> "calculation_error", taxLookup |-> taxLookup,
                       taxAmount |-> taxAmount, total |-> total]
               ELSE [status |-> "created", taxLookup |-> taxLookup,
                     taxAmount |-> taxAmount, total |-> total]

\* customers buying MaxQty jars at the checkout page while the carrier comes
\* and goes
NextCheckout ==
  \/ \E sh \in ShippingChoices, taxLookup \in TaxLookups :
       CreateOrder(MaxQty, sh, taxLookup)
  \/ \E up \in CarrierStates : CarrierChanges(up)
  \/ ClockTick

SpecCheckout == Init /\ [][NextCheckout]_vars

(* ----------------------------- subscriptions --------------------------- *)
\* the frame of the subscription routes
SubscriptionFrame ==
  /\ UNCHANGED <<inventory_count, coupons, orders, paypal_captured, now, req,
                 vc_response>>
  /\ UNCHANGED quoteVars
  /\ UNCHANGED <<calc, paypal_order>>

\* POST /api/subscribe up to the answer of its SELECT
SubscribeStart(r, user, subscriptionID, dbOk) ==
  /\ sub_req[r].pc = "idle"
  /\ \A q \in SubReqIds : q < r => sub_req[q].pc # "idle"
  /\ LET answer(resp) == [pc |-> "done", user |-> user,
                          subscriptionID |-> subscriptionID, resp |-> resp]
     IN  sub_req' = [sub_req EXCEPT ![r] =
           IF user.role = "guest" THEN answer("member_required")
           ELSE IF subscriptionID = NoSubscriptionID THEN answer("id_required")
           ELSE IF ~dbOk THEN answer("failed")
           ELSE IF ActiveSubscriptions(user.userId) # {} THEN answer("already_active")
           ELSE [pc |-> "insert", user |-> user, subscriptionID |-> subscriptionID,
                 resp |-> "none"]]
  /\ UNCHANGED <<subscriptions, cancel_response>>
  /\ SubscriptionFrame

\* POST /api/subscribe from its INSERT on; paypal_subscription_id is UNIQUE
SubscribeInsert(r, dbOk) ==
  /\ sub_req[r].pc = "insert"
  /\ LET row == [id |-> r, user_id |-> sub_req[r].user.userId,
                 paypal_subscription_id |-> sub_req[r].subscriptionID,
                 status |-> "active"]
         refused == \/ ~dbOk
                    \/ \E other \in subscriptions :
                         other.paypal_subscription_id = row.paypal_subscription_id
     IN  /\ subscriptions' = IF refused THEN subscriptions
                             ELSE subscriptions \cup {row}
         /\ sub_req' = [sub_req EXCEPT ![r].pc = "done",
                                       ![r].resp = IF refused THEN "failed" ELSE "ok"]
  /\ UNCHANGED cancel_response
  /\ SubscriptionFrame

\* POST /api/cancel-subscription
CancelSubscription(user, dbOk) ==
  /\ IF user.role = "guest"
       THEN cancel_response' = "member_required" /\ UNCHANGED subscriptions
     ELSE IF ~dbOk
       THEN cancel_response' = "failed" /\ UNCHANGED subscriptions
     ELSE /\ subscriptions' =
               {IF row \in ActiveSubscriptions(user.userId)
                  THEN [row EXCEPT !.status = "cancelled"] ELSE row :
                row \in subscriptions}
          /\ cancel_response' = IF ActiveSubscriptions(user.userId) = {}
                                  THEN "not_found" ELSE "ok"
  /\ UNCHANGED sub_req
  /\ SubscriptionFrame

\* subscribing and cancelling, the requests of /api/subscribe overlapping
NextSubscribe ==
  \/ \E r \in SubReqIds, user \in Tokens, id \in SubscriptionIDs, dbOk \in BOOLEAN :
       SubscribeStart(r, user, id, dbOk)
  \/ \E r \in SubReqIds, dbOk \in BOOLEAN : SubscribeInsert(r, dbOk)
  \/ \E user \in Tokens, dbOk \in BOOLEAN : CancelSubscription(user, dbOk)

SpecSubscribe == Init /\ [][NextSubscribe]_vars

(* --------------------- orders of members and guests -------------------- *)
\* one jar bought through either commit route, with the token of member u1
\* or without token; the body of the capture route says whether the page
\* took the customer for a subscriber
MemberProcessBodies ==
  { SentBy(ProcessBody("sp4oz", 1, Ground, NoCode, "PAY-B", TRUE), user) :
      user \in {Member("u1"), NoToken} }

MemberCaptureBodies ==
  { SentBy(CaptureBody("sp4oz", 1, Ground, NoCode, "PAY-A", sub, TRUE), user) :
      sub \in BOOLEAN, user \in {Member("u1"), NoToken} }

\* member u1 subscribes, cancels and buys
NextMember ==
  \/ \E r \in ReqIds, b \in MemberProcessBodies : ProcessPaymentStart(r, b, TRUE)
  \/ \E r \in ReqIds : ProcessInsertOrder(r)
  \/ \E r \in ReqIds : ProcessUpdateInventory(r)
  \/ \E r \in ReqIds, b \in MemberCaptureBodies : CapturePaypalStart(r, b, TRUE, TRUE)
  \/ \E r \in ReqIds : CaptureInsertOrder(r)
  \/ \E r \in ReqIds : CaptureUpdateInventory(r)
  \/ \E r \in SubReqIds : SubscribeStart(r, Member("u1"), "I-A", TRUE)
  \/ \E r \in SubReqIds : SubscribeInsert(r, TRUE)
  \/ CancelSubscription(Member("u1"), TRUE)

SpecMember == Init /\ [][NextMember]_vars

(* ------------------- the helper functions on their own ----------------- *)
\* the frame of a call of a helper function
HelperFrame ==
  /\ UNCHANGED <<inventory_count, coupons, orders, paypal_captured, now, req,
                 vc_response>>
  /\ UNCHANGED quoteVars
  /\ UNCHANGED <<subscriptions, sub_req, cancel_response, paypal_order>>

\* the amounts calculateTax is called on: every quarter up to 12.00, with the
\* whole dollars whose product with 0.045 is a half cent
TaxAmounts == {k * 25 * Cent : k \in 0..MaxQuarters}

\* the states of the addresses: none, Arkansas in both cases, states without
\* nexus, a state the rate table does not have
TaxStates == {NoState, "AR", "ar", "NY", "LA", "PR"}

\* a call of taxCalculator.calculateTax
CallCalculateTax(amount, state) ==
  /\ calc' = [fn |-> "calculateTax", amount |-> amount, state |-> state,
              result |-> calculateTaxResult(amount, state)]
  /\ HelperFrame

\* the jar sizes of the products, and one the weight table does not have
PackageSizes == {"4oz", "8oz", "16oz", "32oz"}

\* the quantities the package helpers are called on
PackageQuantities == 1..(MaxQty + 2)

\* calls of usps.calculatePackageWeight and usps.getPackageDimensions on the
\* same arguments, as test-usps.js makes them
CallPackage(productSize, quantity) ==
  /\ calc' = [fn |-> "package", productSize |-> productSize, quantity |-> quantity,
              weight |-> calculatePackageWeight(productSize, quantity),
              dimensions |-> getPackageDimensions(productSize, quantity)]
  /\ HelperFrame

\* the five-digit ZIP codes getStateFromZip is called on: Little Rock,
\* Shreveport LA, New Orleans, Memphis TN, Nashville, Jackson MS, New York,
\* Hartford CT (06101), Holtsville NY (00501), Texarkana TX (75501), Ketchikan AK
ZipNumbers == {72201, 71101, 70112, 38103, 37201, 39201, 10001, 6101, 501, 75501, 99901}

\* a call of taxCalculator.getStateFromZip on a five-digit ZIP code
CallGetStateFromZip(zipNum) ==
  /\ calc' = [fn |-> "getStateFromZip", zip |-> zipNum,
              state |-> StateOfZip(zipNum \div 1000, zipNum),
              otherOrder |-> StateOfZip_RangesFirst(zipNum \div 1000, zipNum),
              matches |-> MatchingRules(zipNum \div 1000, zipNum)]
  /\ HelperFrame

NextHelpers ==
  \/ \E zipNum \in ZipNumbers : CallGetStateFromZip(zipNum)
  \/ \E amount \in TaxAmounts, state \in TaxStates : CallCalculateTax(amount, state)
  \/ \E size \in PackageSizes, q \in PackageQuantities : CallPackage(size, q)

SpecHelpers == Init /\ [][NextHelpers]_vars

(* ------------------- coupon validation on its own ---------------------- *)
\* The rows the hand-inserted coupon 'limited' may be: 5.00 off or 150% off
\* (discount_value has no CHECK constraint), used any number of times up to
\* its usage_limit.
LimitedRows ==
  { [ discount_type |-> t[1], discount_value |-> t[2], active |-> TRUE,
      usage_limit |-> CouponLimit, usage_count |-> u, expires_at |-> {MaxNow} ] :
      t \in {<<"fixed", 500 * Cent>>, <<"percentage", 150>>}, u \in 0..CouponLimit }

InitValidate ==
  /\ \E row \in LimitedRows : coupons = [SeededCoupons EXCEPT !["limited"] = row]
  /\ InitOther

\* the subtotals a validation request carries: none, 3.00, one 4oz jar
ValidateSubtotals == {0, 300 * Cent, Price4oz}

\* validations of every code while coupons are switched on and off and expire
NextValidate ==
  \/ \E code \in BodyCodes, subtotal \in ValidateSubtotals, sh \in ShippingChoices :
       ValidateCoupon(code, subtotal, sh.cost)
  \/ \E code \in BodyCodes \ {NoCode}, active \in BOOLEAN : AdminCoupon(code, active)
  \/ Tick

SpecValidate == InitValidate /\ [][NextValidate]_vars

(* ------------------------------ claims --------------------------------- *)
RECURSIVE SumQuantity(_)
\* the sum of the quantities of a set of order rows
SumQuantity(rows) ==
  IF rows = {} THEN 0
  ELSE LET o == CHOOSE x \in rows : TRUE
       IN  o.quantity + SumQuantity(rows \ {o})

\* the order rows a route inserted for a sub-product
OrdersThrough(route, sub) ==
  { o \in orders : o.sub_product_id = sub /\ req[o.id].route = route }

\* request r has read its body and looked up its sub-product
Committing(r) == req[r].pc \in {"insert", "decrement", "coupon"} \/ req[r].wrote # {}

\* C1: the orders /api/process-payment inserts for a sub-product never add
\* up to more units than its inventory_count held at the start.
C1_NoOversell ==
  \A s \in SubProductIds : SumQuantity(OrdersThrough("process", s)) <= InitStock

\* C2: inventory_count is never negative.
C2_InventoryNonNegative ==
  \A s \in SubProductIds : inventory_count[s] >= 0

\* C3: a commit whose captured amount differs by more than one cent from the
\* total the server computes for it is rejected and writes nothing.
C3_MismatchAborts ==
  \A r \in ReqIds :
    (Committing(r)
       /\ Abs(PayPalCaptured(req[r].paypalOrderId) - req[r].totalAmount) > Cent)
    => (req[r].wrote = {} /\ req[r].resp # "ok")

\* the tables a complete commit of request r writes
FullCommit(r) ==
  {"order", "inventory"} \cup (IF req[r].couponCode # NoCode THEN {"coupon"} ELSE {})

\* C4: a finished commit has made all of its writes (order row, inventory
\* decrement, coupon-usage increment) or none of them.
C4_CommitAtomic ==
  \A r \in ReqIds :
    req[r].pc = "done" => (req[r].wrote = {} \/ req[r].wrote = FullCommit(r))

\* C5: no two order rows carry the same paypal_order_id.
C5_AtMostOncePerPayment ==
  \A o1 \in orders, o2 \in orders :
    o1.paypal_order_id = o2.paypal_order_id => o1.id = o2.id

\* the total of an order row recomputed from the stored price: subtotal +
\* shipping + tax on both - coupon discount - subscriber discount
RecomputedTotal(o) ==
  LET subtotal == price(o.sub_product_id) * o.quantity
  IN  subtotal + o.shipping_cost
        + calculateTax(subtotal + o.shipping_cost, o.shipping_state)
        - o.coupon_discount - Round2(req[o.id].subscriberDiscount)

\* C6: the total_amount of every order row is within one cent of the
\* recomputed total; a row with a coupon_discount has a total_amount lowered
\* by it.
C6_StoredTotalMatches ==
  \A o \in orders :
    /\ Abs(o.total_amount - RecomputedTotal(o)) <= Cent
    /\ o.coupon_discount # 0 =>
         o.total_amount <= price(o.sub_product_id) * o.quantity + o.shipping_cost
                             + calculateTax(price(o.sub_product_id) * o.quantity
                                              + o.shipping_cost, o.shipping_state)
                             - o.coupon_discount + Cent

\* C7: a coupon with a usage_limit is never used more often than the limit.
C7_CouponUsageBound ==
  \A c \in StoredCodes :
    coupons[c].usage_limit = -1 \/ coupons[c].usage_count <= coupons[c].usage_limit

\* no commit handler is between two statements
Quiescent == \A r \in ReqIds : req[r].pc \in {"idle", "done"}

\* C8: once the handlers have finished, the usage_count of a coupon is the
\* number of orders committed with its code, in whatever letter case.
C8_CouponCountedOncePerOrder ==
  Quiescent =>
    \A c \in StoredCodes :
      coupons[c].usage_count =
        Cardinality({ r \in ReqIds : /\ req[r].resp = "ok"
                                     /\ ToLowerCase(req[r].couponCode) = c })

\* C9: a commit naming a coupon that is unknown, inactive, expired or
\* exhausted when the handler runs is rejected and writes nothing.
C9_CouponRevalidated ==
  \A r \in ReqIds :
    (req[r].couponCode # NoCode /\ ~req[r].couponValid)
    => (req[r].wrote = {} /\ req[r].resp # "ok" /\ \A o \in orders : o.id # r)

\* C10: a /api/process-payment request asking for more than the
\* inventory_count its lookup returned is answered "Insufficient inventory",
\* and it inserts no order and writes neither inventory_count nor usage_count.
C10_InsufficientStockAborts ==
  \A r \in ReqIds :
    (req[r].route = "process" /\ req[r].quantity > req[r].seenInventory)
    => /\ req[r].pc = "done"
       /\ req[r].resp = "insufficient_inventory"
       /\ req[r].wrote = {}
       /\ \A o \in orders : o.id # r

\* a request with a coupon code was refused because it asked for more than
\* the stock an earlier commit had left
C10_Witness ==
  \E r \in ReqIds :
    /\ req[r].resp = "insufficient_inventory"
    /\ req[r].quantity > req[r].seenInventory
    /\ req[r].seenInventory > 0
    /\ req[r].couponCode # NoCode

\* C11: no call of /api/calculate-order-total, /api/calculate-shipping or
\* /api/validate-coupon, in any order and however often repeated, changes a
\* sub-product's inventory_count, a coupon row or the order rows.
C11_QuotesMutateNothing ==
  [][/\ inventory_count' = inventory_count
     /\ coupons' = coupons
     /\ orders' = orders]_vars

\* an order-total quote was repeated with the same body after a coupon was
\* validated, and the tables are as they were at the start
C11_Witness ==
  /\ quote_response.route = "order-total"
  /\ quote_response.status = "ok"
  /\ quote_response.previous # {}
  /\ vc_response.status = "valid"
  /\ lookup.called
  /\ inventory_count["sp4oz"] = InitStock
  /\ coupons["family"].usage_count = 0
  /\ orders = {}

\* C12: an /api/calculate-order-total call that follows a call with the same
\* body, the tables unchanged between them, returns the same shipping
\* options with the same totals.
C12_QuoteDeterministic ==
  quote_response.route = "order-total" =>
    \A p \in quote_response.previous : p = quote_response.options

\* C13: the subtotal of an order-total quote, and the subtotal of each of
\* its options, is the stored unit price of the sub-product times the
\* quantity, whatever productPrice the request carries.
C13_StoredPriceUsed ==
  (quote_response.route = "order-total" /\ quote_response.status = "ok") =>
    LET stored == price("sp4oz") * quote_response.body.quantity
    IN  /\ quote_response.subtotal = stored
        /\ \A i \in DOMAIN quote_response.options :
             quote_response.options[i].subtotal = stored

\* a carrier service is among the rates of the last quote
HasCarrierRate ==
  \E i \in DOMAIN quote_response.rates :
    quote_response.rates[i].service \notin {"LOCAL_PICKUP", "PICKUP"}

\* C14: a quote for which every rate request to the carrier failed is
\* answered successfully with rates of carrier services and with the flag
\* that says fallback rates were used.
C14_FallbackFlagged ==
  (quote_response.status = "ok" /\ quote_response.failed = ServiceSet) =>
    (quote_response.fallback /\ HasCarrierRate)

\* the coupon discount of a quote: the discountAmount /api/validate-coupon
\* answers for the code on subtotal + shipping
QuoteCouponDiscount(code, base) ==
  IF code # NoCode /\ CouponValidNow(code)
    THEN Round2(CouponDiscountAmount(coupons[ToLowerCase(code)], base))
    ELSE 0

\* C15: the total of every option of an order-total quote is subtotal +
\* shipping cost + tax - coupon discount, each rounded to cents; two jars at
\* 6.99 with shipping 9.95, tax 1.08 and the 25% coupon are quoted 19.03.
C15_QuoteTotalFormula ==
  (quote_response.route = "order-total" /\ quote_response.status = "ok") =>
    \A i \in DOMAIN quote_response.options :
      LET o == quote_response.options[i]
          base == o.subtotal + o.shippingCost
      IN  o.total = Round2(o.subtotal) + Round2(o.shippingCost) + Round2(o.taxAmount)
                      - QuoteCouponDiscount(quote_response.body.couponCode, base)

\* the coupon predicate on the rows a validation found: a row is active, its
\* expires_at is null or later than the time of the request, and its
\* usage_limit is -1 or above its usage_count
AcceptableRow(v) ==
  \E row \in v.rows :
    /\ row.active
    /\ (row.expires_at = {} \/ \E t \in row.expires_at : t > v.at)
    /\ (row.usage_limit = -1 \/ row.usage_count < row.usage_limit)

C17_DiscountClamped ==
  vc_response.status = "valid" =>
    /\ vc_response.discountAmount >= 0
    /\ vc_response.discountAmount <= vc_response.base

\* C18: when the carrier request of every service failed,
\* /api/calculate-shipping answers with the static table: pickup, Ground
\* Advantage 9.95, Priority Mail 18.50, Priority Express 49.95.
C18_StaticTableOnCarrierFailure ==
  (/\ quote_response.route = "shipping"
   /\ quote_response.status = "ok"
   /\ quote_response.failed = ServiceSet)
  => quote_response.rates = ShippingFallbackRates

\* C19: calculateShippingRates returns the cached list of a key, and leaves
\* the entry alone, only when the entry was written less than cacheTTL
\* before the call; when there is no entry, or its age has reached cacheTTL,
\* the call asks the carrier and replaces the entry with what it returns,
\* stamped with the time of the call.
C19_CacheTTL ==
  lookup.called =>
    /\ lookup.hit =>
         \E e \in lookup.before :
           /\ lookup.at - e.timestamp < cacheTTL
           /\ lookup.rates = e.rates
           /\ lookup.after = {e}
    /\ (\A e \in lookup.before : lookup.at - e.timestamp >= cacheTTL) =>
         /\ ~lookup.hit
         /\ lookup.rates = UncachedRates(lookup.up, lookup.key[3])
         /\ lookup.after = {[rates |-> lookup.rates, timestamp |-> lookup.at]}

\* a lookup found an entry exactly cacheTTL old, asked the carrier, which
\* answered otherwise than when the entry was written, and replaced the entry
C19_Witness ==
  /\ lookup.called
  /\ ~lookup.hit
  /\ \E e \in lookup.before :
       /\ lookup.at - e.timestamp = cacheTTL
       /\ e.rates # lookup.rates
  /\ lookup.key \in DOMAIN rateCache
  /\ rateCache[lookup.key].timestamp = lookup.at

\* C20: the list calculateShippingRates returns from the cache, at a moment
\* when the carrier answers every service, is the list a lookup without the
\* cache would build at that moment for the same key, the carrier's prices
\* being the same throughout.
C20_CacheTransparent ==
  (lookup.called /\ lookup.hit /\ lookup.up = ServiceSet) =>
    lookup.rates = UncachedRates(lookup.up, lookup.key[3])

\* C21: an order-total quote whose body gives no state, because it has no
\* address or because its address has no state, carries for every shipping
\* option the tax of the state getStateFromZip returns for its ZIP code.
C21_TaxStateFromZip ==
  ( /\ quote_response.route = "order-total"
    /\ quote_response.status = "ok"
    /\ quote_response.body.address \in {NoAddress, Address(NoState)} )
  => \A i \in 1..Len(quote_response.options) :
       quote_response.options[i].taxAmount =
         calculateTax(quote_response.subtotal + quote_response.options[i].shippingCost,
                      getStateFromZip(quote_response.body.zipCode))

\* C22: createOrder creates a PayPal order only after the tax lookup has
\* answered: no order is created with tax 0 because /api/calculate-order-total
\* answered with an error or did not answer.
C22_NoOrderWithoutTaxLookup ==
  paypal_order.status = "created" => paypal_order.taxLookup = "ok"

\* C23: whatever the order in which the steps of /api/subscribe and
\* /api/cancel-subscription requests run, no user has two subscription rows
\* whose status is 'active'.
C23_OneActiveSubscription ==
  \A u \in {t.userId : t \in Tokens} : Cardinality(ActiveSubscriptions(u)) <= 1

\* the state a call of calculateTax collects tax for: one with nexus and a rate
Taxed(state) ==
  /\ state # NoState
  /\ ToUpperCase(state) \in nexusStates
  /\ taxRates(ToUpperCase(state)) # 0

\* the distance between a tax and amount x rate, in 1/1000 of a cent
TaxError(taxAmount, amount, state) ==
  Abs(amount * taxRates(ToUpperCase(state)) - taxAmount * 1000)

\* what calculateTax returns for a state it collects no tax for
NoTaxResult(result) ==
  /\ result.taxAmount = 0
  /\ result.taxRate = 0
  /\ result.reason \in {"No shipping state provided", "No nexus in",
                         "No tax rate configured"}

C25_SweepRemovesExactlyExpired ==
  (lookup.called /\ ~lookup.hit /\ lookup.size > SweepAbove) =>
    /\ \A age \in lookup.removed : age >= cacheTTL
    /\ \A age \in lookup.kept : age < cacheTTL
    /\ lookup.after = {[rates |-> lookup.rates, timestamp |-> lookup.at]}

\* a setCachedRate call has swept: it removed an entry exactly cacheTTL old
\* and left a younger one beside the entry it wrote
C25_Witness ==
  /\ lookup.called /\ ~lookup.hit
  /\ lookup.size > SweepAbove
  /\ cacheTTL \in lookup.removed
  /\ lookup.kept # {}
  /\ lookup.at = clock
  /\ Cardinality(DOMAIN rateCache) = 2

\* the unit weights of the claim, in tenths of a pound: 0.8, 1.4 and 2.6 for
\* the three jar sizes, 1.0 for any other size
UnitWeightOfSize(productSize) ==
  CASE productSize = "4oz" -> 8
    [] productSize = "8oz" -> 14
    [] productSize = "16oz" -> 26
    [] OTHER -> 10

\* C26: calculatePackageWeight returns the unit weight of the size (1.0 for an
\* unknown size) times the quantity plus 0.5 for the packaging, and
\* getPackageDimensions returns the small box for quantity 1, the medium box
\* for quantity 2 and the large box for any quantity of 3 or more, whatever
\* the size label.
C26_PackageWeightAndBox ==
  calc.fn = "package" =>
    /\ calc.weight = UnitWeightOfSize(calc.productSize) * calc.quantity + 5
    /\ calc.quantity = 1 => calc.dimensions = [width |-> 6, length |-> 9, height |-> 4]
    /\ calc.quantity = 2 => calc.dimensions = [width |-> 8, length |-> 10, height |-> 5]
    /\ calc.quantity >= 3 => calc.dimensions = [width |-> 10, length |-> 12, height |-> 6]

\* the helpers have been called on three jars of a size the table does not have
C26_Witness ==
  /\ calc.fn = "package"
  /\ calc.productSize = "32oz"
  /\ calc.quantity = 3
  /\ calc.weight = 35
  /\ calc.dimensions.length = 12

\* C27: a payment /api/capture-paypal-payment has captured at PayPal has an
\* order row with its PayPal order id, once no request is any longer about to
\* insert that row: no request captures and then ends with an error and no
\* order.
C27_CapturedPaymentHasOrder ==
  \A id \in paypal_captured :
    \/ \E o \in orders : o.paypal_order_id = id
    \/ \E r \in ReqIds : /\ req[r].route = "capture"
                         /\ req[r].pc = "insert"
                         /\ req[r].paypalOrderId = id

\* C28: an order of /api/capture-paypal-payment has its total_amount lowered
\* by a subscriber discount only if the user of the request had a
\* subscription row with status 'active' when the request arrived.
C28_DiscountNeedsSubscription ==
  \A o \in orders :
    (req[o.id].route = "capture" /\ req[o.id].subscriberDiscount > 0)
      => req[o.id].activeSubscription

\* C29: an order is stored with the userId of the token its request came
\* with, on both commit routes, and with null only when the request came
\* without a valid token.
C29_OrderOwnedByTokenUser ==
  \A o \in orders : o.user_id = req[o.id].user.userId

\* C30: the Arkansas prefix rule and the numeric ranges of getStateFromZip do
\* not overlap: a five-digit ZIP code matches at most one rule, and the state
\* returned is the same when the rules are tried in another order.
C30_ZipRulesDisjoint ==
  calc.fn = "getStateFromZip" =>
    /\ Cardinality(calc.matches) <= 1
    /\ calc.otherOrder = calc.state
====
